---- MODULE Spec2Model ----
(***************************************************************************)
(* Fluxo de Ouro API service (src/app.py): the /api/chat lead conversation *)
(* state machine, the /api/update-status-n8n webhook and the               *)
(* /api/get-pagespeed quick diagnostic, over the leads_chatbot table.      *)
(*                                                                         *)
(* Texts (messages, generated replies, log texts) are sequences of         *)
(* symbols; a symbol is an atomic piece of a Python string.  The two       *)
(* completion markers are three symbols long ("[", the marker word, "]"),  *)
(* so that a text can hold a marker, part of a marker, or a marker inside  *)
(* the pieces of another one, as a Python string can.                      *)
(***************************************************************************)
EXTENDS Integers, Sequences, FiniteSets, TLC

\* ------------------------------------------------------------------ bounds
\* Rows the leads_chatbot table may hold.
MaxLeads == 2
\* Chat requests received over a behaviour.
MaxTurns == 2
\* Chat requests that may be in flight at the same time (worker threads).
MaxReq == 2
\* Calls of the webhook and of the quick diagnostic over a behaviour.
MaxAdmin == 1
\* Calls of the webhook over a behaviour of webhook calls only.
MaxHooks == 2

\* ------------------------------------------------------------ text helpers
\* SQL NULL / Python None for a text column; no text equals it, a text being
\* a sequence of symbols none of which is "NULL".
Null == <<"NULL">>
\* SQL NULL for the numeric column score_seo.
NullScore == -1

\* Python truthiness of a text value: None and "" are falsy.
Falsy(v) == v = Null \/ v = <<>>

\* str.strip() removes these from both ends.
IsSpace(c) == c \in {" ", "\n"}

RECURSIVE LStrip(_)
LStrip(t) == IF t # <<>> /\ IsSpace(Head(t)) THEN LStrip(Tail(t)) ELSE t

RECURSIVE RStrip(_)
RStrip(t) ==
    IF t # <<>> /\ IsSpace(t[Len(t)]) THEN RStrip(SubSeq(t, 1, Len(t) - 1)) ELSE t

\* str.strip()
Strip(t) == RStrip(LStrip(t))

\* Whether sep occurs in t at position i (1-based).
MatchAt(t, sep, i) ==
    /\ i >= 1
    /\ i + Len(sep) - 1 <= Len(t)
    /\ SubSeq(t, i, i + Len(sep) - 1) = sep

\* Position of the first occurrence of sep in t, 0 when there is none
\* (str.find, 1-based).
Find(t, sep) ==
    IF \E i \in 1..Len(t) : MatchAt(t, sep, i)
    THEN CHOOSE i \in 1..Len(t) :
            /\ MatchAt(t, sep, i)
            /\ \A j \in 1..(i - 1) : ~MatchAt(t, sep, j)
    ELSE 0

\* Python's `sep in t`.
Contains(t, sep) == Find(t, sep) # 0

\* str.split(sep): the pieces between the occurrences of sep, found left to
\* right without overlap.
RECURSIVE Split(_, _)
Split(t, sep) ==
    LET i == Find(t, sep) IN
    IF i = 0 THEN <<t>>
    ELSE <<SubSeq(t, 1, i - 1)>> \o Split(SubSeq(t, i + Len(sep), Len(t)), sep)

\* str.replace(sep, ""): one left-to-right pass that drops each occurrence
\* found; the result is not scanned again.
RECURSIVE ReplaceEmpty(_, _)
ReplaceEmpty(t, sep) ==
    LET i == Find(t, sep) IN
    IF i = 0 THEN t
    ELSE SubSeq(t, 1, i - 1) \o ReplaceEmpty(SubSeq(t, i + Len(sep), Len(t)), sep)

\* The completion markers.
RELATORIO_ENVIADO == <<"[", "RELATORIO_ENVIADO", "]">>
ORCAMENTO_FINALIZADO == <<"[", "ORCAMENTO_FINALIZADO", "]">>

\* ------------------------------------------------------------ status values
CollectingURL == "Coletando URL"
CollectingData == "Coletando Dados"
GeneratingBait == "Gerando Isca"
BaitDelivered == "Isca Entregue"
CollectingBudget == "Coletando Orcamento"
BudgetCollected == "Orcamento Coletado"
AuditError == "Erro PageSpeed"

\* The contact columns, in the order chat_handler looks for a missing one.
ContactFields == <<"nome", "email", "whatsapp", "cargo">>

\* ------------------------------------------------------------- fixed texts
\* Bot reply after the first audit; the score is formatted "{score:.0f}/100".
ScoreMessage(score) == <<"Analise rapida concluida! Seu score de SEO mobile e", ToString(score), "/100", "qual o seu nome?">>
\* The error text fetch_full_pagespeed_json returns (its HTTP-error text is
\* handled the same way).
AuditErrorTexts == {<<"Erro: Nao foi possivel analisar essa URL.">>}
\* The error text generate_ai_response returns when the Gemini call raises
\* ("IA nao configurada." when no model is configured is handled the same way).
GenErrorTexts == {<<"Desculpe, tive um problema ao processar sua solicitacao.">>}
ReauditErrorText == <<"Nao consegui re-analisar seu site para o relatorio final.">>
FatalErrorText == <<"Ocorreu um erro fatal no processamento do chat.">>
DbConnErrorText == <<"Erro de conexao com o banco de dados.">>
NotFoundText == <<"Lead nao encontrado.">>
RestartText == <<"Estou reiniciando meu fluxo, um momento...">>
IscaFallbackText == <<"Relatorio enviado. Gostaria de um orcamento?">>
IscaSeparator == <<"\n", "\n">>

\* ------------------------------------------------------------ the lead store
\* The row INSERT creates: status 'Coletando URL', the URL, the log holding the
\* user's first message; every other column at its default.
NewLead(url) ==
    [status |-> CollectingURL, url_analisada |-> url, score_seo |-> NullScore,
     nome |-> Null, email |-> Null, whatsapp |-> Null, cargo |-> Null,
     isca |-> Null, email_enviado |-> "null",
     historico_chat |-> <<[role |-> "user", text |-> url]>>]

\* A value of the rows' shape standing for "no row" (fetchone() returning None).
NoRow == [NewLead(Null) EXCEPT !.status = "none", !.historico_chat = <<>>]

\* SELECT * FROM leads_chatbot WHERE id = %s
get_lead_by_id(L, id) == IF id \in DOMAIN L THEN L[id] ELSE NoRow

\* Mutant: the status update is lost.
update_lead_status_Lost(L, id, status) == L

\* UPDATE leads_chatbot SET status = %s WHERE id = %s
update_lead_status(L, id, status) ==
    IF id \in DOMAIN L THEN [L EXCEPT ![id].status = status] ELSE L

\* Mutant: the log column is set to the new entry instead of extended by it.
append_to_chat_history_Overwrite(L, id, role, text) ==
    IF id \in DOMAIN L
    THEN [L EXCEPT ![id].historico_chat = <<[role |-> role, text |-> text]>>]
    ELSE L

\* UPDATE ... SET historico_chat = historico_chat || {"role", "text"}
append_to_chat_history(L, id, role, text) ==
    IF id \in DOMAIN L
    THEN [L EXCEPT ![id].historico_chat = Append(@, [role |-> role, text |-> text])]
    ELSE L

\* UPDATE leads_chatbot SET {field} = %s WHERE id = %s
UpdateField(L, id, field, value) ==
    IF id \in DOMAIN L THEN [L EXCEPT ![id][field] = value] ELSE L

\* UPDATE leads_chatbot SET score_seo = %s, status = 'Coletando Dados'
UpdateScore(L, id, score) ==
    IF id \in DOMAIN L
    THEN [L EXCEPT ![id].score_seo = score, ![id].status = CollectingData]
    ELSE L

\* UPDATE leads_chatbot SET isca = %s, status = 'Isca Entregue'
UpdateIsca(L, id, isca) ==
    IF id \in DOMAIN L
    THEN [L EXCEPT ![id].isca = isca, ![id].status = BaitDelivered]
    ELSE L

\* UPDATE leads_chatbot SET status = %s, email_enviado = %s (the webhook)
UpdateStatusAndFlag(L, id, status, flag) ==
    IF id \in DOMAIN L
    THEN [L EXCEPT ![id].status = status, ![id].email_enviado = flag]
    ELSE L

\* Mutant: the phone is looked for before the email.
MissingDataField_PhoneFirst(ld) ==
    IF Falsy(ld.nome) THEN "nome"
    ELSE IF Falsy(ld.whatsapp) THEN "whatsapp"
    ELSE IF Falsy(ld.email) THEN "email"
    ELSE IF Falsy(ld.cargo) THEN "cargo"
    ELSE "none"

\* chat_handler's search for the contact field to fill: the first one, in the
\* fixed order, whose value is falsy; "none" when every field is truthy.
MissingDataField(ld) ==
    IF Falsy(ld.nome) THEN "nome"
    ELSE IF Falsy(ld.email) THEN "email"
    ELSE IF Falsy(ld.whatsapp) THEN "whatsapp"
    ELSE IF Falsy(ld.cargo) THEN "cargo"
    ELSE "none"

\* generate_ai_response's list of the data still missing.
MissingData(ld) == {f \in {"nome", "email", "whatsapp", "cargo"} : Falsy(ld[f])}

\* ------------------------------------------------------------------ inputs
\* Inbound chat messages: one that resembles a URL, one that does not, and
\* the empty message.
Msgs == {<<"site", ".", "com">>, <<"oi">>, <<>>}

\* The first-message test of the specification: the message contains a dot
\* and has the minimum length.
MinUrlLen == 3
ResemblesURL(m) == (\E i \in 1..Len(m) : m[i] = ".") /\ Len(m) >= MinUrlLen

\* lighthouseResult.categories.seo.score times 100, for the scores the audit
\* service returns here.
AuditScores == {0, 42}

\* What fetch_full_pagespeed_json returns: (None, error text), or (json, None)
\* where the json's SEO score is a number or null (NullScore).
AuditOutcomes ==
    {[error |-> e, score |-> NullScore] : e \in AuditErrorTexts}
        \cup {[error |-> Null, score |-> s] : s \in AuditScores \cup {NullScore}}

\* Texts the generative model may answer with: plain text, text with the
\* report marker (once, twice), text with the budget marker, and text where
\* the pieces around a budget marker spell another.
GenTexts ==
    {<<"ok">>,
     <<"diag", "\n">> \o RELATORIO_ENVIADO \o <<"\n", "quer?">>,
     <<"diag">> \o RELATORIO_ENVIADO \o <<"mais">> \o RELATORIO_ENVIADO \o <<"fim">>,
     <<"grato", " ">> \o ORCAMENTO_FINALIZADO,
     <<"[">> \o ORCAMENTO_FINALIZADO \o <<"ORCAMENTO_FINALIZADO", "]">>}

\* What the Gemini call inside generate_ai_response returns: {"error": ...}
\* or {"response_text": ...}.
GenOutcomes ==
    {[error |-> e, response_text |-> <<>>] : e \in GenErrorTexts}
        \cup {[error |-> Null, response_text |-> t] : t \in GenTexts}

\* The report step's split of the generated text on [RELATORIO_ENVIADO].
IscaCompleta(bot_response) == Strip(Split(bot_response, RELATORIO_ENVIADO)[1])
ChatResponse(bot_response) ==
    LET parts == Split(bot_response, RELATORIO_ENVIADO) IN
    IF Len(parts) > 1 THEN Strip(parts[2]) ELSE IscaFallbackText
IscaReply(bot_response) ==
    IscaCompleta(bot_response) \o IscaSeparator \o ChatResponse(bot_response)

\* The budget step's removal of [ORCAMENTO_FINALIZADO].
FinalResponse(bot_response) == Strip(ReplaceEmpty(bot_response, ORCAMENTO_FINALIZADO))

\* Authorization headers of webhook calls, as split(' ') sees them, and the
\* configured secret N8N_SECRET_KEY.
N8N_SECRET_KEY == "segredo"
AuthHeaders == {Null, <<"Bearer">>, <<"Bearer", "outra">>, <<"Bearer", N8N_SECRET_KEY>>}

\* Statuses the webhook is called with; None when new_status is absent.
HookStatuses == {"Email Enviado", CollectingData}

\* ------------------------------------------------------------------- state
VARIABLES
    leads,      \* the leads_chatbot table: row i has id i
    logTurn,    \* for each row, the turn number of the request that appended each log entry
    req,        \* the chat requests in flight, one per worker: the handler's position (pc)
                \* and locals; generated is the Gemini text when it holds a marker,
                \* sales how the Sales Notifier POST of the turn ended, faulted
                \* whether a store operation of the turn failed
    nTurns,     \* chat requests received so far
    nAdmin,     \* webhook and quick-diagnostic calls so far
    posts,      \* for each row, the Sales Notifier POSTs fired for it
    hookResp,   \* HTTP status of the last webhook call (0: none yet)
    hookReq,    \* what the last webhook call carried: its Authorization header and
                \* the email_enviado of its body ("unread" when the body was not read)
    diagResp,   \* HTTP status of the last quick-diagnostic call (0: none yet)
    pipeline    \* the standalone-capture flow: for each captured lead, in the order
                \* of capture, its analysis_status and final_report, the position of
                \* its background task and of the capturing request

vars == <<leads, logTurn, req, nTurns, nAdmin, posts, hookResp, hookReq, diagResp, pipeline>>

Reqs == 1..MaxReq

NoResp == [code |-> 0, message |-> <<>>, lead_id |-> 0]
IdleReq ==
    [pc |-> "idle", lead_id |-> 0, message |-> <<>>, turn |-> 0, lead_data |-> NoRow,
     generated |-> <<>>, bot_response |-> <<>>, isca_completa |-> <<>>, resp |-> NoResp,
     sales |-> "none", faulted |-> FALSE]

\* return jsonify({"message": text, "lead_id": lead_id}) with status 200
Success(q, text) ==
    [IdleReq EXCEPT !.pc = "done", !.resp = [code |-> 200, message |-> text, lead_id |-> q.lead_id]]

\* return jsonify({"error": text}), code
Failure(q, code, text) ==
    [IdleReq EXCEPT !.pc = "done", !.resp = [code |-> code, message |-> text, lead_id |-> 0]]

\* How the Sales Notifier POST ends: answered, refused (connection error or
\* a payload that cannot be serialised) or timed out after 5 seconds.
SalesOutcomes == {"ok", "failed", "timeout"}

\* Mutant: a notifier failure is turned into the handler's error response.
NotifierReply_Propagates(q, text, outcome) ==
    IF outcome = "ok" THEN [Success(q, text) EXCEPT !.sales = outcome]
    ELSE [Failure(q, 500, FatalErrorText) EXCEPT !.sales = outcome]

\* The budget step's end: the POST inside try/except (a failure is printed),
\* then the 200 reply with the final response.
NotifierReply(q, text, outcome) == [Success(q, text) EXCEPT !.sales = outcome]

\* The turn number of a log entry follows every append to the log.
AppendTurn(T, L, id, turn) ==
    IF id \in DOMAIN L THEN [T EXCEPT ![id] = Append(@, turn)] ELSE T

\* ------------------------------------------------------- serial turn effects
\* What a whole turn leaves in the table when nothing else runs meanwhile.
\* The initial tables are built from these: the empty table, and a lead after
\* its creation and one, three and four qualifying turns.  Each is a table
\* the steps below reach from the empty one in that many turns.
SerialCreate(L, url, score) ==
    append_to_chat_history(UpdateScore(Append(L, NewLead(url)), Len(L) + 1, score),
                           Len(L) + 1, "bot", ScoreMessage(score))

SerialQualify(L, id, msg, reply) ==
    append_to_chat_history(
        UpdateField(append_to_chat_history(L, id, "user", msg), id, MissingDataField(L[id]), msg),
        id, "bot", reply)

SerialIsca(L, id, msg, text) ==
    append_to_chat_history(
        UpdateIsca(
            update_lead_status(
                UpdateField(append_to_chat_history(L, id, "user", msg), id, MissingDataField(L[id]), msg),
                id, GeneratingBait),
            id, IscaCompleta(text)),
        id, "bot", IscaReply(text))

SeedUrl == <<"site", ".", "com">>
SeedText == <<"diag", "\n">> \o RELATORIO_ENVIADO \o <<"\n", "quer?">>
SeedCreated == SerialCreate(<<>>, SeedUrl, 42)
SeedOne == SerialQualify(SeedCreated, 1, <<"oi">>, <<"ok">>)
SeedThree == SerialQualify(SerialQualify(SeedOne, 1, <<"oi">>, <<"ok">>), 1, <<"oi">>, <<"ok">>)
SeedIsca == SerialIsca(SeedThree, 1, <<"oi">>, SeedText)
InitialTables == {<<>>, SeedOne, SeedThree, SeedIsca}

\* The turns behind an initial log of n entries: each earlier turn appended a
\* user entry and a bot entry; they are numbered up to 0, the turns of a
\* behaviour from 1.
SeedTurns(n) == [j \in 1..n |-> ((j + 1) \div 2) - (n \div 2)]

\* Whether the service is configured with SALES_WEBHOOK_URL.
SalesWebhookConfigured == TRUE

NoHookReq == [auth_header |-> Null, email_enviado |-> "unread"]

Init ==
    /\ leads \in InitialTables
    /\ logTurn = [i \in DOMAIN leads |-> SeedTurns(Len(leads[i].historico_chat))]
    /\ req = [r \in Reqs |-> IdleReq]
    /\ nTurns = 0
    /\ nAdmin = 0
    /\ posts = [i \in DOMAIN leads |-> 0]
    /\ hookResp = 0
    /\ hookReq = NoHookReq
    /\ pipeline = <<>>
    /\ diagResp = 0

\* --------------------------------------------------------- /api/chat steps
\* A chat request arrives: {message, lead_id?}.  lead_id 0 stands for an
\* absent lead_id; Len(leads) + 1 is an id no row has.  The workers being
\* interchangeable, the request goes to the first idle one.
Receive(r) ==
    /\ req[r].pc = "idle"
    /\ \A q \in 1..(r - 1) : req[q].pc # "idle"
    /\ nTurns < MaxTurns
    /\ \E id \in 0..(Len(leads) + 1), m \in Msgs :
        /\ id = 0 =>
            Len(leads) + Cardinality({q \in Reqs : req[q].pc = "received" /\ req[q].lead_id = 0}) < MaxLeads
        /\ req' = [req EXCEPT ![r] = [IdleReq EXCEPT !.pc = "received", !.lead_id = id,
                                                      !.message = m, !.turn = nTurns + 1]]
    /\ nTurns' = nTurns + 1
    /\ UNCHANGED <<leads, logTurn, nAdmin, posts, hookResp, hookReq, diagResp, pipeline>>

\* Stage 1, no lead_id: INSERT the lead with the message as its URL.
InsertLead(r) ==
    /\ req[r].pc = "received"
    /\ req[r].lead_id = 0
    /\ leads' = Append(leads, NewLead(req[r].message))
    /\ logTurn' = Append(logTurn, <<req[r].turn>>)
    /\ posts' = Append(posts, 0)
    /\ req' = [req EXCEPT ![r].pc = "audit", ![r].lead_id = Len(leads) + 1]
    /\ UNCHANGED <<nTurns, nAdmin, hookResp, hookReq, diagResp, pipeline>>

\* Stage 1: the audit call and the store update that follows it.  A null SEO
\* score makes `score * 100` raise; the handler's except clause answers 500.
FirstAudit(r) ==
    /\ req[r].pc = "audit"
    /\ \E a \in AuditOutcomes :
        IF a.error # Null
        THEN /\ leads' = update_lead_status(leads, req[r].lead_id, AuditError)
             /\ req' = [req EXCEPT ![r].pc = "bot", ![r].bot_response = a.error]
        ELSE IF a.score = NullScore
        THEN /\ leads' = leads
             /\ req' = [req EXCEPT ![r] = Failure(req[r], 500, FatalErrorText)]
        ELSE /\ leads' = UpdateScore(leads, req[r].lead_id, a.score)
             /\ req' = [req EXCEPT ![r].pc = "bot", ![r].bot_response = ScoreMessage(a.score)]
    /\ UNCHANGED <<logTurn, nTurns, nAdmin, posts, hookResp, hookReq, diagResp, pipeline>>

\* append_to_chat_history(lead_id, 'bot', bot_response), then the 200 reply.
AppendBot(r) ==
    /\ req[r].pc = "bot"
    /\ leads' = append_to_chat_history(leads, req[r].lead_id, "bot", req[r].bot_response)
    /\ logTurn' = AppendTurn(logTurn, leads, req[r].lead_id, req[r].turn)
    /\ req' = [req EXCEPT ![r] = Success(req[r], req[r].bot_response)]
    /\ UNCHANGED <<nTurns, nAdmin, posts, hookResp, hookReq, diagResp, pipeline>>

\* Stage 2: append_to_chat_history(lead_id, 'user', user_message).
AppendUser(r) ==
    /\ req[r].pc = "received"
    /\ req[r].lead_id # 0
    /\ leads' = append_to_chat_history(leads, req[r].lead_id, "user", req[r].message)
    /\ logTurn' = AppendTurn(logTurn, leads, req[r].lead_id, req[r].turn)
    /\ req' = [req EXCEPT ![r].pc = "read"]
    /\ UNCHANGED <<nTurns, nAdmin, posts, hookResp, hookReq, diagResp, pipeline>>

\* Mutant: a lead in 'Erro PageSpeed' is taken through the qualification.
StatusBranch_ErrorQualifies(current_status) ==
    IF current_status \in {CollectingData, AuditError} THEN "qualify"
    ELSE IF current_status \in {BaitDelivered, CollectingBudget} THEN "budget"
    ELSE "unknown"

\* Mutant: a lead in 'Orcamento Coletado' is taken through the budget step.
StatusBranch_CollectedRestarts(current_status) ==
    IF current_status = CollectingData THEN "qualify"
    ELSE IF current_status \in {BaitDelivered, CollectingBudget, BudgetCollected} THEN "budget"
    ELSE "unknown"

\* chat_handler's if / elif / else on current_status.
StatusBranch(current_status) ==
    IF current_status = CollectingData THEN "qualify"
    ELSE IF current_status \in {BaitDelivered, CollectingBudget} THEN "budget"
    ELSE "unknown"

\* lead_data = get_lead_by_id(lead_id), and the dispatch on its status up to
\* the next store operation.
ReadLead(r) ==
    /\ req[r].pc = "read"
    /\ LET ld == get_lead_by_id(leads, req[r].lead_id) IN
       req' = [req EXCEPT ![r] =
                IF ld = NoRow THEN Failure(req[r], 404, NotFoundText)
                ELSE IF StatusBranch(ld.status) = "qualify"
                THEN [req[r] EXCEPT !.lead_data = ld,
                                    !.pc = IF MissingDataField(ld) # "none" THEN "write" ELSE "gerando"]
                ELSE IF StatusBranch(ld.status) = "budget"
                THEN [req[r] EXCEPT !.lead_data = ld, !.pc = "coletando"]
                ELSE Success([req[r] EXCEPT !.lead_data = ld], RestartText)]
    /\ UNCHANGED <<leads, logTurn, nTurns, nAdmin, posts, hookResp, hookReq, diagResp, pipeline>>

\* Stage 2, 'Coletando Dados': UPDATE the missing field with the message,
\* then generate_ai_response on the local copy that holds the new value: with
\* nothing missing it answers next_step = 'generate_isca' without a Gemini
\* call; otherwise the Gemini call fails (500) or gives the next question.
WriteField(r) ==
    /\ req[r].pc = "write"
    /\ LET f == MissingDataField(req[r].lead_data)
           local == [req[r].lead_data EXCEPT ![f] = req[r].message]
       IN /\ leads' = UpdateField(leads, req[r].lead_id, f, req[r].message)
          /\ IF MissingData(local) = {}
             THEN req' = [req EXCEPT ![r].pc = "gerando"]
             ELSE \E g \in GenOutcomes :
                    req' = [req EXCEPT ![r] =
                             IF g.error # Null THEN Failure(req[r], 500, g.error)
                             ELSE [req[r] EXCEPT !.pc = "bot", !.bot_response = g.response_text]]
    /\ UNCHANGED <<logTurn, nTurns, nAdmin, posts, hookResp, hookReq, diagResp, pipeline>>

\* The report step after its status update: the second audit call with
\* outcome a, the Gemini call with outcome g and the split of its text on the
\* marker, for a request whose locals are q.
ReportStep(q, a, g) ==
    IF a.error # Null THEN Failure(q, 500, ReauditErrorText)
    ELSE IF g.error # Null THEN Failure(q, 500, g.error)
    ELSE IF Contains(g.response_text, RELATORIO_ENVIADO)
    THEN [q EXCEPT !.pc = "isca",
                   !.generated = g.response_text,
                   !.isca_completa = IscaCompleta(g.response_text),
                   !.bot_response = IscaReply(g.response_text)]
    ELSE [q EXCEPT !.pc = "bot", !.bot_response = g.response_text]

\* The report step: update_lead_status(lead_id, 'Gerando Isca'), the second
\* audit call, the Gemini call and the split of its text on the marker.
SetGerandoIsca(r) ==
    /\ req[r].pc = "gerando"
    /\ leads' = update_lead_status(leads, req[r].lead_id, GeneratingBait)
    /\ \E a \in AuditOutcomes, g \in GenOutcomes :
        req' = [req EXCEPT ![r] = ReportStep(req[r], a, g)]
    /\ UNCHANGED <<logTurn, nTurns, nAdmin, posts, hookResp, hookReq, diagResp, pipeline>>

\* UPDATE leads_chatbot SET isca = %s, status = 'Isca Entregue'.
SaveIsca(r) ==
    /\ req[r].pc = "isca"
    /\ leads' = UpdateIsca(leads, req[r].lead_id, req[r].isca_completa)
    /\ req' = [req EXCEPT ![r].pc = "bot"]
    /\ UNCHANGED <<logTurn, nTurns, nAdmin, posts, hookResp, hookReq, diagResp, pipeline>>

\* Mutant: the generated text is not tested for the marker and every reply
\* closes the budget.
BudgetStep_NoMarkerTest(q, g) ==
    IF g.error # Null THEN Failure(q, 500, g.error)
    ELSE [q EXCEPT !.pc = "coletado",
                   !.generated = g.response_text,
                   !.bot_response = FinalResponse(g.response_text)]

\* The budget step after its status update: the Gemini call with outcome g
\* and the test for the marker, for a request whose locals are q.
BudgetStep(q, g) ==
    IF g.error # Null THEN Failure(q, 500, g.error)
    ELSE IF Contains(g.response_text, ORCAMENTO_FINALIZADO)
    THEN [q EXCEPT !.pc = "coletado",
                   !.generated = g.response_text,
                   !.bot_response = FinalResponse(g.response_text)]
    ELSE [q EXCEPT !.pc = "bot", !.bot_response = g.response_text]

\* Stage 2, 'Isca Entregue' / 'Coletando Orcamento':
\* update_lead_status(lead_id, 'Coletando Orcamento'), then the Gemini call.
SetColetandoOrcamento(r) ==
    /\ req[r].pc = "coletando"
    /\ leads' = update_lead_status(leads, req[r].lead_id, CollectingBudget)
    /\ \E g \in GenOutcomes :
        req' = [req EXCEPT ![r] = BudgetStep(req[r], g)]
    /\ UNCHANGED <<logTurn, nTurns, nAdmin, posts, hookResp, hookReq, diagResp, pipeline>>

\* update_lead_status(lead_id, 'Orcamento Coletado').
SetOrcamentoColetado(r) ==
    /\ req[r].pc = "coletado"
    /\ leads' = update_lead_status(leads, req[r].lead_id, BudgetCollected)
    /\ req' = [req EXCEPT ![r].pc = "final"]
    /\ UNCHANGED <<logTurn, nTurns, nAdmin, posts, hookResp, hookReq, diagResp, pipeline>>

\* append_to_chat_history(lead_id, 'bot', final_response), the Sales Notifier
\* POST (fired when configured; however it ends, the failure is caught and
\* logged) and the 200 reply.
AppendFinal(r) ==
    /\ req[r].pc = "final"
    /\ leads' = append_to_chat_history(leads, req[r].lead_id, "bot", req[r].bot_response)
    /\ logTurn' = AppendTurn(logTurn, leads, req[r].lead_id, req[r].turn)
    /\ posts' = IF SalesWebhookConfigured /\ req[r].lead_id \in DOMAIN posts
                THEN [posts EXCEPT ![req[r].lead_id] = @ + 1]
                ELSE posts
    /\ IF SalesWebhookConfigured
       THEN \E o \in SalesOutcomes :
                req' = [req EXCEPT ![r] = NotifierReply(req[r], req[r].bot_response, o)]
       ELSE req' = [req EXCEPT ![r] = Success(req[r], req[r].bot_response)]
    /\ UNCHANGED <<nTurns, nAdmin, hookResp, hookReq, diagResp, pipeline>>

\* The response is sent and the worker is free for the next request.
Release(r) ==
    /\ req[r].pc = "done"
    /\ req' = [req EXCEPT ![r] = IdleReq]
    /\ UNCHANGED <<leads, logTurn, nTurns, nAdmin, posts, hookResp, hookReq, diagResp, pipeline>>

\* ------------------------------------------------ store operations failing
\* A store operation of a chat turn fails: the connection cannot be opened or
\* the statement raises.  What the handler then does depends on where the
\* operation sits: on the handler's own connection the exception reaches the
\* except clause; inside a helper it is printed and the helper returns.
Faulted(q) == [q EXCEPT !.faulted = TRUE]

\* get_db_connection() at the top of chat_handler returns None: 500.
ConnectFails(r) ==
    /\ req[r].pc = "received"
    /\ req' = [req EXCEPT ![r] = Faulted(Failure(req[r], 500, DbConnErrorText))]
    /\ UNCHANGED <<leads, logTurn, nTurns, nAdmin, posts, hookResp, hookReq, diagResp, pipeline>>

\* The INSERT raises: the except clause rolls back and answers 500.
InsertFails(r) ==
    /\ req[r].pc = "received"
    /\ req[r].lead_id = 0
    /\ req' = [req EXCEPT ![r] = Faulted(Failure(req[r], 500, FatalErrorText))]
    /\ UNCHANGED <<leads, logTurn, nTurns, nAdmin, posts, hookResp, hookReq, diagResp, pipeline>>

\* An UPDATE on the handler's own connection raises (the score after a
\* successful audit, the contact field, the report): the except clause
\* rolls back the failed statement and answers 500.
UpdateFails(r) ==
    /\ req[r].pc \in {"audit", "write", "isca"}
    /\ req' = [req EXCEPT ![r] = Faulted(Failure(req[r], 500, FatalErrorText))]
    /\ UNCHANGED <<leads, logTurn, nTurns, nAdmin, posts, hookResp, hookReq, diagResp, pipeline>>

\* get_lead_by_id fails and returns None: the handler answers 404.
HelperReadFails(r) ==
    /\ req[r].pc = "read"
    /\ req' = [req EXCEPT ![r] = Faulted(Failure(req[r], 404, NotFoundText))]
    /\ UNCHANGED <<leads, logTurn, nTurns, nAdmin, posts, hookResp, hookReq, diagResp, pipeline>>

\* update_lead_status fails: it prints the error and returns, and the handler
\* goes on as after a successful update.
HelperStatusFails(r) ==
    /\ \/ /\ req[r].pc = "audit"
          /\ \E e \in AuditErrorTexts :
                req' = [req EXCEPT ![r] = Faulted([req[r] EXCEPT !.pc = "bot", !.bot_response = e])]
       \/ /\ req[r].pc = "gerando"
          /\ \E a \in AuditOutcomes, g \in GenOutcomes :
                req' = [req EXCEPT ![r] = Faulted(ReportStep(req[r], a, g))]
       \/ /\ req[r].pc = "coletando"
          /\ \E g \in GenOutcomes :
                req' = [req EXCEPT ![r] = Faulted(BudgetStep(req[r], g))]
       \/ /\ req[r].pc = "coletado"
          /\ req' = [req EXCEPT ![r] = Faulted([req[r] EXCEPT !.pc = "final"])]
    /\ UNCHANGED <<leads, logTurn, nTurns, nAdmin, posts, hookResp, hookReq, diagResp, pipeline>>

\* append_to_chat_history fails: it prints the error and returns, and the
\* handler goes on as after a successful append (the user's message, the
\* bot's reply, the final reply before the Sales Notifier POST).
HelperAppendFails(r) ==
    /\ \/ /\ req[r].pc = "received"
          /\ req[r].lead_id # 0
          /\ req' = [req EXCEPT ![r] = Faulted([req[r] EXCEPT !.pc = "read"])]
          /\ posts' = posts
       \/ /\ req[r].pc = "bot"
          /\ req' = [req EXCEPT ![r] = Faulted(Success(req[r], req[r].bot_response))]
          /\ posts' = posts
       \/ /\ req[r].pc = "final"
          /\ posts' = IF SalesWebhookConfigured /\ req[r].lead_id \in DOMAIN posts
                      THEN [posts EXCEPT ![req[r].lead_id] = @ + 1]
                      ELSE posts
          /\ IF SalesWebhookConfigured
             THEN \E o \in SalesOutcomes :
                    req' = [req EXCEPT ![r] = Faulted(NotifierReply(req[r], req[r].bot_response, o))]
             ELSE req' = [req EXCEPT ![r] = Faulted(Success(req[r], req[r].bot_response))]
    /\ UNCHANGED <<leads, logTurn, nTurns, nAdmin, hookResp, hookReq, diagResp, pipeline>>

StoreFails(r) ==
    \/ ConnectFails(r)
    \/ InsertFails(r)
    \/ UpdateFails(r)
    \/ HelperReadFails(r)
    \/ HelperStatusFails(r)
    \/ HelperAppendFails(r)

\* ------------------------------------------------- /api/update-status-n8n
\* The secret the handler reads from the Authorization header: "raise" when
\* split(' ')[1] does not exist (IndexError, answered 500 by the framework).
SecretKey(auth_header) ==
    IF auth_header = Null THEN "none"
    ELSE IF ~(\E i \in 1..Len(auth_header) : auth_header[i] = "Bearer") THEN "none"
    ELSE IF Len(auth_header) < 2 THEN "raise"
    ELSE auth_header[2]

\* Statuses and flags the webhook is called with; an absent email_enviado
\* is read as False.
HookFlag(flag) == IF flag = "absent" THEN "false" ELSE flag

\* One call of the webhook, from its Authorization header to its response.
UpdateStatusCall ==
    /\ \E h \in AuthHeaders :
        LET secret_key == SecretKey(h) IN
        IF secret_key = "raise"
        THEN /\ hookResp' = 500 /\ leads' = leads
             /\ hookReq' = [auth_header |-> h, email_enviado |-> "unread"]
        ELSE IF secret_key = "none" \/ secret_key # N8N_SECRET_KEY
        THEN /\ hookResp' = 401 /\ leads' = leads
             /\ hookReq' = [auth_header |-> h, email_enviado |-> "unread"]
        ELSE \E id \in 0..(Len(leads) + 1), st \in HookStatuses \cup {"none"},
                flag \in {"absent", "true"} :
                /\ hookReq' = [auth_header |-> h, email_enviado |-> flag]
                /\ IF id = 0 \/ st = "none" THEN hookResp' = 400 /\ leads' = leads
                   ELSE /\ hookResp' = 200
                        /\ leads' = UpdateStatusAndFlag(leads, id, st, HookFlag(flag))
    /\ UNCHANGED <<logTurn, req, nTurns, posts, diagResp, pipeline>>

update_status_n8n ==
    /\ nAdmin < MaxAdmin
    /\ nAdmin' = nAdmin + 1
    /\ UpdateStatusCall

\* A webhook call among up to MaxHooks of them, no other operation running.
UpdateStatusAgain ==
    /\ nAdmin < MaxHooks
    /\ nAdmin' = nAdmin + 1
    /\ UpdateStatusCall

\* ------------------------------------------------------ /api/get-pagespeed
get_pagespeed_report ==
    /\ nAdmin < MaxAdmin
    /\ nAdmin' = nAdmin + 1
    /\ \E url \in Msgs :
        IF Falsy(url) THEN diagResp' = 400
        ELSE \E a \in AuditOutcomes :
                diagResp' = IF a.error # Null THEN 502
                            ELSE IF a.score = NullScore THEN 500
                            ELSE 200
    /\ UNCHANGED <<leads, logTurn, req, nTurns, posts, hookResp, hookReq, pipeline>>

\* ------------------------------------------- Background Report Pipeline
\* The standalone-capture flow and its background task, as the specification
\* describes them (section 4.2); src/app.py generates the report inside the
\* chat turn and holds no such task.
serviceVars == <<leads, logTurn, req, nTurns, nAdmin, posts, hookResp, hookReq, diagResp>>

\* A lead as the capture endpoint leaves it: analysis_status PENDING, no final
\* report, its task triggered and the capturing request still being handled.
CapturedLead ==
    [analysis_status |-> "PENDING", final_report |-> Null, task |-> "queued",
     capture |-> "handling", raised |-> FALSE, dones |-> 0]

\* The capture endpoint persists the lead and triggers the task.
CaptureLead ==
    /\ Len(pipeline) < MaxLeads
    /\ pipeline' = Append(pipeline, CapturedLead)
    /\ UNCHANGED serviceVars

\* The capture endpoint returns its HTTP response, wherever the task is.
CaptureReturns(i) ==
    /\ i \in DOMAIN pipeline
    /\ pipeline[i].capture = "handling"
    /\ pipeline' = [pipeline EXCEPT ![i].capture = "returned"]
    /\ UNCHANGED serviceVars

\* Step 1: the task marks analysis_status = PROCESSING.
TaskStart(i) ==
    /\ i \in DOMAIN pipeline
    /\ pipeline[i].task = "queued"
    /\ pipeline' = [pipeline EXCEPT ![i].task = "processing", ![i].analysis_status = "PROCESSING"]
    /\ UNCHANGED serviceVars

\* Mutant: the audit failure is raised to the invoker instead of recorded.
TaskAfterAudit_Raises(t, a) ==
    IF a.error # Null THEN [t EXCEPT !.task = "finished", !.raised = TRUE]
    ELSE [t EXCEPT !.task = "audited"]

\* Step 2: the Audit Client's outcome; on failure the task marks
\* analysis_status = FAILED with the error text in final_report, and stops.
TaskAfterAudit(t, a) ==
    IF a.error # Null
    THEN [t EXCEPT !.task = "finished", !.analysis_status = "FAILED", !.final_report = a.error]
    ELSE [t EXCEPT !.task = "audited"]

TaskAudit(i) ==
    /\ i \in DOMAIN pipeline
    /\ pipeline[i].task = "processing"
    /\ \E a \in AuditOutcomes : pipeline' = [pipeline EXCEPT ![i] = TaskAfterAudit(@, a)]
    /\ UNCHANGED serviceVars

\* Steps 3 to 5: the Text-Generation Adapter's outcome; the task persists
\* final_report and analysis_status = DONE, or records the failure.
TaskAfterGeneration(t, g) ==
    IF g.error # Null
    THEN [t EXCEPT !.task = "finished", !.analysis_status = "FAILED", !.final_report = g.error]
    ELSE [t EXCEPT !.task = "finished", !.analysis_status = "DONE",
                   !.final_report = g.response_text, !.dones = @ + 1]

TaskGenerate(i) ==
    /\ i \in DOMAIN pipeline
    /\ pipeline[i].task = "audited"
    /\ \E g \in GenOutcomes : pipeline' = [pipeline EXCEPT ![i] = TaskAfterGeneration(@, g)]
    /\ UNCHANGED serviceVars

\* The capture endpoint and the tasks it triggered, each task scheduled on
\* its own.
NextPipeline ==
    \/ CaptureLead
    \/ \E i \in 1..MaxLeads :
            CaptureReturns(i) \/ TaskStart(i) \/ TaskAudit(i) \/ TaskGenerate(i)

\* ---------------------------------------------------------- specifications
\* The steps of a request once received.
Handle(r) ==
    \/ InsertLead(r)
    \/ FirstAudit(r)
    \/ AppendUser(r)
    \/ ReadLead(r)
    \/ WriteField(r)
    \/ SetGerandoIsca(r)
    \/ SaveIsca(r)
    \/ SetColetandoOrcamento(r)
    \/ SetOrcamentoColetado(r)
    \/ AppendBot(r)
    \/ AppendFinal(r)
    \/ Release(r)

ChatStep(r) == Receive(r) \/ Handle(r)

\* Chat requests only, handled concurrently.
NextChat == \E r \in Reqs : ChatStep(r)

\* Every operation of the service, handled concurrently.
Next == NextChat \/ update_status_n8n \/ get_pagespeed_report

\* No request is being handled in the state: every worker is idle.
Quiet == \A r \in Reqs : req[r].pc = "idle"
\* Every operation, handled one after another: a request is received only
\* when no other is in flight, and the webhook and the quick diagnostic run
\* between chat turns.
ReceiveSerial(r) == Quiet /\ Receive(r)
UpdateStatusSerial == Quiet /\ update_status_n8n
GetPagespeedSerial == Quiet /\ get_pagespeed_report

NextSeq ==
    \/ \E r \in Reqs : ReceiveSerial(r) \/ Handle(r)
    \/ UpdateStatusSerial
    \/ GetPagespeedSerial

\* Chat requests handled one after another, with a store that may fail at
\* any operation.
NextFault == \E r \in Reqs : ReceiveSerial(r) \/ Handle(r) \/ StoreFails(r)

\* Webhook calls only, one after another.
NextHook == UpdateStatusAgain

Spec == Init /\ [][Next]_vars
SpecChat == Init /\ [][NextChat]_vars
SpecSeq == Init /\ [][NextSeq]_vars
SpecFault == Init /\ [][NextFault]_vars
SpecPipeline == Init /\ [][NextPipeline]_vars
SpecHook == Init /\ [][NextHook]_vars

\* ------------------------------------------------------------ claim helpers
\* The step ends request r's turn: its response is ready.
Finishes(r) == req[r].pc \notin {"idle", "done"} /\ req'[r].pc = "done"

\* The row request r works on exists before and after the step.
RowOf(r) == req[r].lead_id

\* The turn of r is the one that created its lead (it never reads the row).
Creating(r) == req[r].pc \in {"audit", "bot"} /\ req[r].lead_data = NoRow

\* A contact field holds no value: NULL or the empty text.
NoValue(v) == v = Null \/ v = <<>>

\* The contact fields of a row that hold no value, as positions 1..4 of the
\* fixed order name, email, phone, role.
MissingPositions(row) == {i \in 1..4 : NoValue(row[ContactFields[i]])}

Contact(row) == [i \in 1..4 |-> row[ContactFields[i]]]

Last(seq) == seq[Len(seq)]

IsPrefix(a, b) == Len(a) <= Len(b) /\ SubSeq(b, 1, Len(a)) = a

\* -------------------------------------------------------------------- C1
\* C1 (as claimed): a turn that read the lead in 'Coletando Dados' with
\* exactly one contact field missing and submits it ends with the persisted
\* status 'Isca Entregue' after a 200 reply that carried the report, or
\* else 'Coletando Dados'; never any other status.
C1_LastFieldTurnEndsDeliveredOrCollecting ==
    [][\A r \in Reqs :
        (/\ Finishes(r)
         /\ req[r].lead_data.status = CollectingData
         /\ Cardinality(MissingPositions(req[r].lead_data)) = 1
         /\ ~NoValue(req[r].message))
        => leads'[RowOf(r)].status \in {BaitDelivered, CollectingData}]_vars

\* -------------------------------------------------------------------- C2
\* C2 (as claimed): a turn that ends with the Text-Generation Adapter's error
\* answers an error (500) and leaves the persisted status equal to the
\* status the turn read at its start.
C2_GenerationErrorKeepsStatus ==
    [][\A r \in Reqs :
        (Finishes(r) /\ req'[r].resp.message \in GenErrorTexts)
        => /\ req'[r].resp.code = 500
           /\ leads'[RowOf(r)].status = req[r].lead_data.status]_vars

\* -------------------------------------------------------------------- C3
\* The contact fields a turn is to leave: those of the row it read, the first
\* one without a value holding the message.
ExpectedContact(row, msg) ==
    IF MissingPositions(row) = {} THEN Contact(row)
    ELSE LET first == CHOOSE i \in MissingPositions(row) :
                        \A j \in MissingPositions(row) : i <= j
         IN [Contact(row) EXCEPT ![first] = msg]

\* C3: with the operations handled one after another, a turn that read the
\* lead in 'Coletando Dados' leaves the contact fields as it read them except
\* that the first field without a value, in the order name, email, phone,
\* role, holds the inbound message; with no field missing it leaves all four
\* as read.  And no single step of any turn changes more than that.
C3_OneFieldPerTurnInOrder ==
    [][/\ \A r \in Reqs :
            (Finishes(r) /\ req[r].lead_data.status = CollectingData)
            => Contact(leads'[RowOf(r)]) = ExpectedContact(req[r].lead_data, req[r].message)
       /\ \A l \in DOMAIN leads :
            Contact(leads'[l]) # Contact(leads[l])
            => \E r \in Reqs :
                /\ RowOf(r) = l
                /\ req[r].lead_data.status = CollectingData
                /\ Contact(leads'[l]) = ExpectedContact(leads[l], req[r].message)]_vars

\* A second turn in a row has ended after writing its message into the phone
\* field (the initial tables hold no such phone), the role still missing.
C3_Witness ==
    \E l \in DOMAIN leads, r \in Reqs :
        /\ req[r].pc = "done"
        /\ req[r].resp.code = 200
        /\ req[r].resp.lead_id = l
        /\ ~NoValue(leads[l].email)
        /\ leads[l].whatsapp = <<"site", ".", "com">>
        /\ NoValue(leads[l].cargo)
        /\ leads[l].status = CollectingData

\* -------------------------------------------------------------------- C4
\* C4 (as claimed): handling a first message (no lead_id) that does not
\* resemble a URL adds no row to the table.
C4_NonUrlCreatesNoLead ==
    [][\A r \in Reqs :
        (/\ req[r].pc = "received"
         /\ req[r].lead_id = 0
         /\ ~ResemblesURL(req[r].message)
         /\ req'[r] # req[r])
        => Len(leads') = Len(leads)]_vars

\* -------------------------------------------------------------------- C5
\* The statuses from which a chat turn (re-)attempts the report generation:
\* the handler enters the report step only on reading 'Coletando Dados'.
RetriesReport(status) == status = CollectingData

\* C5 (as claimed): a turn that fails during report generation (the second
\* audit or the text generation fails) leaves the lead in a status from which
\* the next chat turn re-attempts the report generation.
C5_FailedReportCanBeRetried ==
    [][\A r \in Reqs :
        (/\ Finishes(r)
         /\ req[r].pc = "gerando"
         /\ req'[r].resp.code = 500)
        => RetriesReport(leads'[RowOf(r)].status)]_vars

\* -------------------------------------------------------------------- C6
\* C6 (as claimed): the turn that created a lead and whose audit call did not
\* return an error ends with that lead in 'Coletando Dados' with a score
\* stored, a 200 reply carrying the lead's id, and the bot's reply as the
\* last log entry, after the user's URL entry.
C6_CreatingTurnEndsCollectingData ==
    [][\A r \in Reqs :
        (Finishes(r) /\ Creating(r) /\ req[r].bot_response \notin AuditErrorTexts)
        => /\ leads'[RowOf(r)].status = CollectingData
           /\ leads'[RowOf(r)].score_seo # NullScore
           /\ req'[r].resp.code = 200
           /\ req'[r].resp.lead_id = RowOf(r)
           /\ leads'[RowOf(r)].historico_chat[1] = [role |-> "user", text |-> leads'[RowOf(r)].url_analisada]
           /\ Last(leads'[RowOf(r)].historico_chat) = [role |-> "bot", text |-> req'[r].resp.message]]_vars

\* -------------------------------------------------------------------- C7
\* C7: with chat requests only (handled concurrently), the creating turn
\* whose audit call failed ends with the lead in 'Erro PageSpeed' and the
\* audit's error text as the last log entry, a bot entry; a lead in
\* 'Erro PageSpeed' stays in it over every step; and no request working on
\* such a lead is at a point where it calls the audit (the first audit of the
\* creating turn, the second audit of the report step).
C7_AuditErrorIsTerminal ==
    [][/\ \A r \in Reqs :
            (Finishes(r) /\ Creating(r) /\ req[r].bot_response \in AuditErrorTexts)
            => /\ leads'[RowOf(r)].status = AuditError
               /\ Last(leads'[RowOf(r)].historico_chat) = [role |-> "bot", text |-> req[r].bot_response]
       /\ \A l \in DOMAIN leads :
            leads[l].status = AuditError
            => /\ leads'[l].status = AuditError
               /\ \A r \in Reqs : req'[r].lead_id = l => req'[r].pc \notin {"audit", "gerando"}]_vars

\* A lead is in 'Erro PageSpeed' with the error text logged, and a later chat
\* turn for it has ended.
C7_Witness ==
    \E l \in DOMAIN leads, r \in Reqs :
        /\ leads[l].status = AuditError
        /\ \E i \in DOMAIN leads[l].historico_chat :
            /\ leads[l].historico_chat[i].role = "bot"
            /\ leads[l].historico_chat[i].text \in AuditErrorTexts
        /\ req[r].pc = "done"
        /\ req[r].resp = [code |-> 200, message |-> RestartText, lead_id |-> l]

\* -------------------------------------------------------------------- C8
\* C8: over every step of every operation (chat turns, the webhook, the quick
\* diagnostic, handled concurrently) no row disappears and each lead's log
\* before the step is a prefix of its log after it.
C8_LogAppendOnly ==
    [][\A l \in DOMAIN leads :
        /\ l \in DOMAIN leads'
        /\ IsPrefix(leads[l].historico_chat, leads'[l].historico_chat)]_vars

\* The webhook has updated a lead whose log two turns of the behaviour have
\* appended to.
C8_Witness ==
    \E l \in DOMAIN leads :
        /\ hookResp = 200
        /\ leads[l].status = "Email Enviado"
        /\ \E i, j \in DOMAIN logTurn[l] : logTurn[l][i] = 1 /\ logTurn[l][j] = 2

\* -------------------------------------------------------------------- C9
\* C9 (as claimed): in each lead's log the user entries stand in the order
\* in which their requests were received, each bot reply stands after the
\* user entry of its own turn, and before the user entry of every turn
\* received later.
C9_LogInArrivalOrder ==
    \A l \in DOMAIN leads :
        \A i, j \in DOMAIN leads[l].historico_chat :
            LET ei == leads[l].historico_chat[i]
                ej == leads[l].historico_chat[j]
                ti == logTurn[l][i]
                tj == logTurn[l][j]
            IN /\ (ei.role = "user" /\ ej.role = "user" /\ ti < tj) => i < j
               /\ (ei.role = "user" /\ ej.role = "bot" /\ ti = tj) => i < j
               /\ (ei.role = "bot" /\ ej.role = "user" /\ ti < tj) => i < j

\* ------------------------------------------------------------------- C10
\* The text before the first occurrence of the marker, without the white
\* space around it.
BeforeFirst(t, marker) == Strip(SubSeq(t, 1, Find(t, marker) - 1))

\* C10 (as claimed): a turn whose generated text held the step's completion
\* marker ends with a reply and a logged bot entry that hold no occurrence of
\* that marker; in the report step the stored report is the text before the
\* first marker and holds nothing that followed it.
C10_MarkerStripped ==
    [][\A r \in Reqs :
        (Finishes(r) /\ req[r].generated # <<>>)
        => LET marker == IF req[r].pc = "final" THEN ORCAMENTO_FINALIZADO
                         ELSE RELATORIO_ENVIADO
           IN /\ ~Contains(req'[r].resp.message, marker)
              /\ Last(leads'[RowOf(r)].historico_chat).role = "bot"
              /\ ~Contains(Last(leads'[RowOf(r)].historico_chat).text, marker)
              /\ req[r].pc # "final"
                 => leads'[RowOf(r)].isca = BeforeFirst(req[r].generated, RELATORIO_ENVIADO)]_vars

\* ------------------------------------------------------------------- C11
\* C11: with the operations handled one after another, a turn that read the
\* lead in 'Isca Entregue' or 'Coletando Orcamento' and whose generated text
\* held [ORCAMENTO_FINALIZADO] ends, however the Sales Notifier POST ended
\* (answered, refused, timed out), with the persisted status 'Orcamento
\* Coletado', a 200 reply carrying the final response and the lead's id, and
\* that response as the last log entry, a bot entry.
C11_NotifierFailureNotFatal ==
    [][\A r \in Reqs :
        (/\ Finishes(r)
         /\ req[r].lead_data.status \in {BaitDelivered, CollectingBudget}
         /\ Find(req[r].generated, ORCAMENTO_FINALIZADO) # 0)
        => /\ req'[r].sales \in SalesOutcomes
           /\ leads'[RowOf(r)].status = BudgetCollected
           /\ req'[r].resp = [code |-> 200, message |-> req[r].bot_response, lead_id |-> RowOf(r)]
           /\ Last(leads'[RowOf(r)].historico_chat) = [role |-> "bot", text |-> req[r].bot_response]]_vars

\* A turn whose Sales Notifier POST timed out has ended with a 200 reply and
\* the lead in 'Orcamento Coletado'.
C11_Witness ==
    \E r \in Reqs :
        /\ req[r].pc = "done"
        /\ req[r].sales = "timeout"
        /\ req[r].resp.code = 200
        /\ req[r].resp.lead_id \in DOMAIN leads
        /\ leads[req[r].resp.lead_id].status = BudgetCollected

\* ------------------------------------------------------------------- C12
\* The place of a status in the order 'Coletando URL', 'Coletando Dados',
\* 'Gerando Isca', 'Isca Entregue', 'Coletando Orcamento', 'Orcamento
\* Coletado'; 0 for a status outside it.
StatusRank(status) ==
    CASE status = CollectingURL -> 1
      [] status = CollectingData -> 2
      [] status = GeneratingBait -> 3
      [] status = BaitDelivered -> 4
      [] status = CollectingBudget -> 5
      [] status = BudgetCollected -> 6
      [] OTHER -> 0

\* C12 (as claimed): with chat requests only, handled concurrently, no step
\* moves a lead's persisted status backward in that order.
C12_StatusNeverMovesBackward ==
    [][\A l \in DOMAIN leads :
        (StatusRank(leads[l].status) > 0 /\ StatusRank(leads'[l].status) > 0)
        => StatusRank(leads'[l].status) >= StatusRank(leads[l].status)]_vars

\* ------------------------------------------------------------------- C13
\* C13 (as claimed): with chat requests only, handled concurrently, and for
\* every message content, no step changes a contact field that holds a
\* non-null value.
C13_ContactFieldSetOnce ==
    [][\A l \in DOMAIN leads : \A i \in 1..4 :
        leads[l][ContactFields[i]] # Null
        => leads'[l][ContactFields[i]] = leads[l][ContactFields[i]]]_vars

\* ------------------------------------------------------------------- C14
\* The statuses past 'Coletando Dados'.
PastCollectingData == {GeneratingBait, BaitDelivered, CollectingBudget, BudgetCollected, AuditError}

\* The row a turn read, or reads in this step.
ReadRow(r) == IF req[r].pc = "read" THEN get_lead_by_id(leads, RowOf(r)) ELSE req[r].lead_data

\* C14: with the operations handled one after another, a turn that read the
\* lead in a status past 'Coletando Dados' ends with the four contact fields
\* as it read them, whatever its message and also when the message repeats the
\* previous turn's; and no step changes a contact field of a lead whose
\* persisted status is past 'Coletando Dados'.
C14_NoContactWritePastCollectingData ==
    [][/\ \A r \in Reqs :
            (Finishes(r) /\ ReadRow(r).status \in PastCollectingData)
            => Contact(leads'[RowOf(r)]) = Contact(ReadRow(r))
       /\ \A l \in DOMAIN leads :
            leads[l].status \in PastCollectingData
            => Contact(leads'[l]) = Contact(leads[l])]_vars

\* The same message was submitted in two turns of the behaviour to a lead
\* past 'Coletando Dados', and the second turn has ended.
C14_Witness ==
    \E l \in DOMAIN leads, r \in Reqs :
        /\ leads[l].status \in PastCollectingData
        /\ req[r].pc = "done"
        /\ req[r].resp.code = 200
        /\ req[r].resp.lead_id = l
        /\ \E i, j \in DOMAIN logTurn[l] :
            /\ logTurn[l][i] = 1 /\ logTurn[l][j] = 2
            /\ leads[l].historico_chat[i].role = "user"
            /\ leads[l].historico_chat[j].role = "user"
            /\ leads[l].historico_chat[i].text = leads[l].historico_chat[j].text

\* ------------------------------------------------------------------- C15
\* A row without its log.
Columns(row) == [row EXCEPT !.historico_chat = <<>>]

\* C15 (as claimed): with chat requests handled one after another and a store
\* that may fail, a turn in which a store operation failed ends with a 5xx
\* reply, no log holds an entry written by that turn (so the row it may have
\* created is not there either), and the columns of the lead it read are as
\* it read them.
C15_StoreFailureRollsBack ==
    [][\A r \in Reqs :
        (Finishes(r) /\ (req[r].faulted \/ req'[r].faulted))
        => /\ req'[r].resp.code >= 500
           /\ \A l \in DOMAIN leads' : \A i \in DOMAIN logTurn'[l] : logTurn'[l][i] # req[r].turn
           /\ req[r].lead_data # NoRow
              => Columns(leads'[RowOf(r)]) = Columns(req[r].lead_data)]_vars

\* ------------------------------------------------------------------- C16
\* The header is 'Bearer' followed by the configured secret.
CarriesSecret(auth_header) ==
    /\ Len(auth_header) = 2
    /\ auth_header[1] = "Bearer"
    /\ auth_header[2] = N8N_SECRET_KEY

\* The step is a webhook call that was answered.
WebhookAnswered == <<hookResp, hookReq>>' # <<hookResp, hookReq>>

\* C16 (as claimed): a webhook call whose Authorization header is absent,
\* malformed or carries another token is answered 401 and changes no lead.
C16_UnauthorizedWebhookRejected ==
    [][(WebhookAnswered /\ ~CarriesSecret(hookReq'.auth_header))
        => (hookResp' = 401 /\ leads' = leads)]_vars

\* ------------------------------------------------------------------- C17
\* C17: in the standalone-capture flow, a task's first step sets
\* analysis_status to PROCESSING; the step that ends a task after an audit
\* failure sets FAILED with the audit's error text in final_report; a task
\* that ends has raised nothing and left FAILED with an error text or DONE
\* with the generated report; no task sets DONE more than once; and no step
\* of a task changes the position of the capturing request.
C17_PipelineContract ==
    [][\A i \in DOMAIN pipeline :
        LET t == pipeline[i]
            u == pipeline'[i]
        IN /\ (t.task = "queued" /\ u.task # "queued") => u.analysis_status = "PROCESSING"
           /\ (t.task = "processing" /\ u.task = "finished")
              => (u.analysis_status = "FAILED" /\ u.final_report \in AuditErrorTexts)
           /\ (t.task # "finished" /\ u.task = "finished")
              => /\ ~u.raised
                 /\ u.analysis_status \in {"FAILED", "DONE"}
                 /\ u.analysis_status = "FAILED" => u.final_report \in AuditErrorTexts \cup GenErrorTexts
                 /\ u.analysis_status = "DONE" => (u.final_report \in GenTexts /\ u.dones = 1)
           /\ u.dones <= 1
           /\ t.task # u.task => t.capture = u.capture]_vars

\* One task has ended FAILED after its audit failed, another DONE, and a
\* capturing request has returned while its task had not finished.
C17_Witness ==
    \E i, j \in DOMAIN pipeline :
        /\ pipeline[i].analysis_status = "FAILED"
        /\ pipeline[i].final_report \in AuditErrorTexts
        /\ pipeline[i].capture = "returned"
        /\ pipeline[j].analysis_status = "DONE"
        /\ pipeline[j].capture = "handling"

\* ------------------------------------------------------------------- C18
\* The text the turn's Gemini call produced, for a turn that has its reply.
GeneratedText(r) == IF req[r].generated # <<>> THEN req[r].generated ELSE req[r].bot_response

\* C18: with the operations handled one after another, a turn that read the
\* lead in 'Isca Entregue' or 'Coletando Orcamento' and whose generated text
\* holds no [ORCAMENTO_FINALIZADO] ends with that text as the last log entry,
\* a bot entry, a 200 reply carrying it and the lead's id, the persisted
\* status 'Coletando Orcamento', and no Sales Notifier POST fired.
C18_BudgetReplyWithoutMarker ==
    [][\A r \in Reqs :
        (/\ Finishes(r)
         /\ req[r].pc \in {"bot", "final"}
         /\ req[r].lead_data.status \in {BaitDelivered, CollectingBudget}
         /\ Find(GeneratedText(r), ORCAMENTO_FINALIZADO) = 0)
        => /\ Last(leads'[RowOf(r)].historico_chat) = [role |-> "bot", text |-> GeneratedText(r)]
           /\ req'[r].resp = [code |-> 200, message |-> GeneratedText(r), lead_id |-> RowOf(r)]
           /\ leads'[RowOf(r)].status = CollectingBudget
           /\ posts' = posts]_vars

\* A turn has answered a lead with a reply without marker; the lead is in
\* 'Coletando Orcamento' and no POST was fired for it.
C18_Witness ==
    \E l \in DOMAIN leads, r \in Reqs :
        /\ req[r].pc = "done"
        /\ req[r].resp = [code |-> 200, message |-> <<"ok">>, lead_id |-> l]
        /\ leads[l].status = CollectingBudget
        /\ Last(leads[l].historico_chat) = [role |-> "bot", text |-> <<"ok">>]
        /\ posts[l] = 0

\* ------------------------------------------------------------------- C19
\* The statuses chat_handler has a branch for.
HandledStatuses == {CollectingData, BaitDelivered, CollectingBudget}

\* C19: with the operations handled one after another, the first step of a
\* turn for an existing lead appends the user's message to the lead's log and
\* changes nothing else in the table; and the next step of a turn that reads
\* a status other than 'Coletando Dados', 'Isca Entregue', 'Coletando
\* Orcamento' ends the turn with the restart reply: it changes no row, fires
\* no Sales Notifier POST and passes no point where the audit or the text
\* generation is called.
C19_UnknownStatusOnlyLogsUser ==
    [][\A r \in Reqs :
        /\ (req[r].pc = "received" /\ RowOf(r) \in DOMAIN leads /\ req'[r].pc = "read")
           => leads' = [leads EXCEPT ![RowOf(r)].historico_chat =
                            Append(@, [role |-> "user", text |-> req[r].message])]
        /\ (/\ req[r].pc = "read"
            /\ req'[r] # req[r]
            /\ RowOf(r) \in DOMAIN leads
            /\ leads[RowOf(r)].status \notin HandledStatuses)
           => /\ leads' = leads
              /\ posts' = posts
              /\ req'[r].pc = "done"
              /\ req'[r].resp = [code |-> 200, message |-> RestartText, lead_id |-> RowOf(r)]]_vars

\* A turn for a lead in 'Orcamento Coletado' has ended with the restart
\* reply, the user's message being the last log entry.
C19_Witness ==
    \E l \in DOMAIN leads, r \in Reqs :
        /\ leads[l].status = BudgetCollected
        /\ req[r].pc = "done"
        /\ req[r].resp = [code |-> 200, message |-> RestartText, lead_id |-> l]
        /\ Last(leads[l].historico_chat).role = "user"

\* ------------------------------------------------------------------- C20
\* C20 (as claimed): with chat requests only, handled concurrently, at most
\* one Sales Notifier POST is fired for each lead.
C20_NotifierAtMostOnce == \A l \in DOMAIN posts : posts[l] <= 1

\* ------------------------------------------------------------------- C21
\* The statuses of a lead whose report was delivered.
ReportStatuses == {BaitDelivered, CollectingBudget, BudgetCollected}

\* C21 (as claimed): with chat requests only, handled concurrently, in every
\* state a lead in 'Isca Entregue', 'Coletando Orcamento' or 'Orcamento
\* Coletado' has its report set and its four contact fields non-null, and a
\* lead whose report is set is in one of those three statuses.
C21_ReportIffDeliveredStatus ==
    \A l \in DOMAIN leads :
        /\ leads[l].status \in ReportStatuses
           => (leads[l].isca # Null /\ \A i \in 1..4 : leads[l][ContactFields[i]] # Null)
        /\ leads[l].isca # Null => leads[l].status \in ReportStatuses

\* ------------------------------------------------------------------- C22
\* The reply is an error response: {"error": ...} with a 4xx or 5xx status.
IsErrorReply(resp) == resp.code >= 400

\* No log holds an entry written by the given turn.
NoEntryOfTurn(T, turn) == \A l \in DOMAIN T : \A i \in DOMAIN T[l] : T[l][i] # turn

\* C22 (as claimed): with the operations handled one after another, a turn
\* for an existing lead that ends with an error response leaves the lead's
\* four contact fields as the turn read them and no entry of its own in the
\* lead's log.
C22_ErrorTurnLeavesContactAndLog ==
    [][\A r \in Reqs :
        (/\ Finishes(r)
         /\ IsErrorReply(req'[r].resp)
         /\ req[r].lead_data # NoRow)
        => /\ Contact(leads'[RowOf(r)]) = Contact(req[r].lead_data)
           /\ NoEntryOfTurn(logTurn', req[r].turn)]_vars

\* ------------------------------------------------------------------- C23
\* C23 (as claimed): with the operations handled one after another, a turn
\* for an existing lead that ends with a success response (200, a message and
\* the lead's id) leaves as the last two entries of the lead's log the user's
\* message and then the bot message it returned, both written by that turn.
C23_SuccessTurnLogsUserThenBot ==
    [][\A r \in Reqs :
        (/\ Finishes(r)
         /\ ~Creating(r)
         /\ req'[r].resp.code = 200)
        => LET log == leads'[RowOf(r)].historico_chat
               n == Len(log)
           IN /\ n >= 2
              /\ log[n - 1] = [role |-> "user", text |-> req[r].message]
              /\ log[n] = [role |-> "bot", text |-> req'[r].resp.message]
              /\ logTurn'[RowOf(r)][n - 1] = req[r].turn
              /\ logTurn'[RowOf(r)][n] = req[r].turn]_vars

\* ------------------------------------------------------------------- C24
\* The stored flag as a boolean: a flag no call has written reads as false.
StoredFlag(flag) == IF flag = "null" THEN "false" ELSE flag

\* C24 (as claimed): a webhook call that is answered 200 and whose body holds
\* no email_enviado changes nothing in the table but a lead's status: every
\* lead's stored flag is as before (true stays true), and so are its other
\* columns.
C24_OmittedFlagKeepsStoredFlag ==
    [][(WebhookAnswered /\ hookResp' = 200 /\ hookReq'.email_enviado = "absent")
        => \A l \in DOMAIN leads :
            /\ StoredFlag(leads'[l].email_enviado) = StoredFlag(leads[l].email_enviado)
            /\ [leads'[l] EXCEPT !.status = leads[l].status, !.email_enviado = leads[l].email_enviado]
                    = leads[l]]_vars
====
